---- MODULE Spec2Model ----
(***************************************************************************)
(* Day 09 - Explosives in Cyberspace: the Ezip parser (versions 1 and 2)   *)
(* and its length evaluator; Day 08 - Two-Factor Authentication: the       *)
(* Screen and its operations.                                              *)
(*                                                                         *)
(* The parser is written with the nom 2.x macros.  Every macro the source  *)
(* uses is modelled by what it returns: an IResult that is Done(rest,out), *)
(* Error or Incomplete.  The input is the byte slice s.as_bytes(); a byte  *)
(* is a one-character string.                                              *)
(***************************************************************************)
EXTENDS Integers, Sequences, FiniteSets, TLC

VARIABLES input, digit_eof, overflow_checks, ir1, r1, ir2, r2,
          len1, len2, prev1, prev2,
          pixels, op, ret, before, nops

vars == <<input, digit_eof, overflow_checks, ir1, r1, ir2, r2,
          len1, len2, prev1, prev2,
          pixels, op, ret, before, nops>>

\* Day 08: the pixels of the Screen, the last Operation executed on it, what
\* execute returned for it, the pixels before it, and the number of
\* operations executed so far.
screen == <<pixels, op, ret, before, nops>>

\* the build (nom's digit, the overflow checks) and the input do not change.
fixed == <<input, digit_eof, overflow_checks>>

(***************************************************************************)
(* Bounds of the model.                                                    *)
(***************************************************************************)
MaxChunks == 4

\* the width of usize in bits.  The targets of the compiler have 16, 32 or 64;
\* the model takes the smallest so that numbers near the limit stay short.
UsizeBits == 16
UsizeMax == 2 ^ UsizeBits - 1

(***************************************************************************)
(* Bytes.                                                                  *)
(***************************************************************************)
Digits == {"0", "1", "2", "3", "4", "5", "6", "7", "8", "9"}

DigitVal(d) ==
    CASE d = "0" -> 0 [] d = "1" -> 1 [] d = "2" -> 2 [] d = "3" -> 3
      [] d = "4" -> 4 [] d = "5" -> 5 [] d = "6" -> 6 [] d = "7" -> 7
      [] d = "8" -> 8 [] d = "9" -> 9

\* the separators skipped by nom's sp, which ws! wraps around its parser.
SepBytes == {" ", "\t", "\r", "\n"}

\* the white space str::trim_right removes (the ASCII part of White_Space).
WhiteSpace == {" ", "\t", "\n", "\r", "\f"}

\* the bytes of a two-byte UTF-8 character: a lead byte and its continuation.
LeadBytes == {"C3"}
ContBytes == {"A9"}

Take(s, n) == SubSeq(s, 1, n)
Drop(s, n) == SubSeq(s, n + 1, Len(s))

(***************************************************************************)
(* nom::IResult and the conversion to Result.                              *)
(***************************************************************************)
Done(rest, out) == [tag |-> "Done", rest |-> rest, out |-> out]
Error == [tag |-> "Error"]
Incomplete == [tag |-> "Incomplete"]
NotRun == [tag |-> "NotRun"]

\* IResult::to_full_result: Done(_, o) => Ok(o); the remaining input is dropped.
to_full_result(ir) ==
    CASE ir.tag = "Done" -> [ok |-> TRUE, val |-> ir.out]
      [] ir.tag = "Incomplete" -> [ok |-> FALSE, err |-> "Incomplete"]
      [] ir.tag = "Error" -> [ok |-> FALSE, err |-> "Error"]

(***************************************************************************)
(* The Ezip tree.                                                          *)
(***************************************************************************)
Uncompressed(s) == [kind |-> "Uncompressed", text |-> s]
Compressed(repeat, children) ==
    [kind |-> "Compressed", repeat |-> repeat, children |-> children]

build(nodes) == [nodes |-> nodes]
build_uncompressed(data) == [nodes |-> <<Uncompressed(data)>>]

\* what a usize computation gives: a value, or a panic of the thread.
Val(n) == [tag |-> "Val", v |-> n]
Panic == [tag |-> "Panic"]

\* a * b modulo 2^UsizeBits, computed in two halves of b so that no
\* intermediate value leaves the range of the model checker's integers.
wrapping_mul(a, b) ==
    (((a * (b \div 256)) % (UsizeMax + 1)) * 256 + a * (b % 256))
        % (UsizeMax + 1)

\* usize * usize: when the product does not fit, a build with overflow
\* checks (debug) panics and a build without them (release) wraps.
usize_mul(a, r, checks) ==
    IF r.tag = "Panic" THEN r
    ELSE IF a = 0 \/ r.v <= UsizeMax \div a THEN Val(a * r.v)
    ELSE IF checks THEN Panic
    ELSE Val(wrapping_mul(a, r.v))

\* usize + usize, as usize_mul.
usize_add(x, y, checks) ==
    IF x.tag = "Panic" THEN x
    ELSE IF y.tag = "Panic" THEN y
    ELSE IF x.v <= UsizeMax - y.v THEN Val(x.v + y.v)
    ELSE IF checks THEN Panic
    ELSE Val((x.v + y.v) % (UsizeMax + 1))

RECURSIVE EzipNode_uncompressed_len(_, _)
RECURSIVE SumNodes(_, _, _)

\* the sum of the first n nodes' lengths (iter().map(..).sum()).
SumNodes(nodes, n, checks) ==
    IF n = 0 THEN Val(0)
    ELSE usize_add(SumNodes(nodes, n - 1, checks),
                   EzipNode_uncompressed_len(nodes[n], checks), checks)

\* Ezip::uncompressed_len in a build with (checks) or without overflow
\* checks.
Ezip_uncompressed_len(ezip, checks) ==
    SumNodes(ezip.nodes, Len(ezip.nodes), checks)

\* s.len() is the number of bytes of the string.
EzipNode_uncompressed_len(node, checks) ==
    IF node.kind = "Uncompressed"
    THEN Val(Len(node.text))
    ELSE usize_mul(node.repeat,
                   Ezip_uncompressed_len(node.children, checks), checks)

RECURSIVE EzipNode_visits(_, _)
RECURSIVE VisitNodes(_, _, _)

\* the number of calls of EzipNode::uncompressed_len made while the first n
\* nodes are summed: the iterator goes on to a node only if the sum up to it
\* did not panic.
VisitNodes(nodes, n, checks) ==
    IF n = 0 THEN 0
    ELSE IF SumNodes(nodes, n - 1, checks).tag = "Panic"
    THEN VisitNodes(nodes, n - 1, checks)
    ELSE VisitNodes(nodes, n - 1, checks) + EzipNode_visits(nodes[n], checks)

\* the number of calls of EzipNode::uncompressed_len in one call of
\* Ezip::uncompressed_len.
Ezip_visits(ezip, checks) == VisitNodes(ezip.nodes, Len(ezip.nodes), checks)

\* the call for the node itself and, for a Compressed node, the calls of the
\* one evaluation of its children: repeat multiplies, it does not iterate.
EzipNode_visits(node, checks) ==
    IF node.kind = "Uncompressed"
    THEN 1
    ELSE 1 + Ezip_visits(node.children, checks)

(***************************************************************************)
(* Lexical helpers.                                                        *)
(***************************************************************************)
RECURSIVE Utf8Valid(_)
\* str::from_utf8 succeeds: every lead byte is followed by a continuation
\* byte and no continuation byte stands alone.
Utf8Valid(s) ==
    IF s = <<>> THEN TRUE
    ELSE IF s[1] \in ContBytes THEN FALSE
    ELSE IF s[1] \in LeadBytes
         THEN Len(s) >= 2 /\ s[2] \in ContBytes /\ Utf8Valid(Drop(s, 2))
         ELSE Utf8Valid(Tail(s))

RECURSIVE PrefixLen(_, _)
\* the length of the longest prefix of s whose bytes are all in set S.
PrefixLen(s, S) ==
    IF s = <<>> \/ s[1] \notin S THEN 0 ELSE 1 + PrefixLen(Tail(s), S)

RECURSIVE trim_right(_)
trim_right(s) ==
    IF s # <<>> /\ s[Len(s)] \in WhiteSpace
    THEN trim_right(Take(s, Len(s) - 1))
    ELSE s

RECURSIVE from_str(_, _)
\* usize::from_str on a run of digits, acc the value read so far: Ok(value),
\* or Err when the value does not fit a usize.
from_str(ds, acc) ==
    IF ds = <<>> THEN [ok |-> TRUE, v |-> acc]
    ELSE IF acc > (UsizeMax - DigitVal(ds[1])) \div 10 THEN [ok |-> FALSE]
    ELSE from_str(Tail(ds), 10 * acc + DigitVal(ds[1]))

\* map_res!(p, FromStr::from_str): Error when from_str answers Err.
map_res_from_str(rest, n) == IF n.ok THEN Done(rest, n.v) ELSE Error

\* char!(c)
char(i, c) ==
    IF i = <<>> THEN Incomplete
    ELSE IF i[1] = c THEN Done(Tail(i), c) ELSE Error

\* eat_separator!: the prefix of i made of n separator bytes is skipped.
eat_separator(i, n) == Done(Drop(i, n), Take(i, n))

\* nom::sp = eat_separator!(" \t\r\n"): never fails.
sp(i) == eat_separator(i, PrefixLen(i, SepBytes))

\* the digits of i, n of them.
digit_run(i, n) == IF n = 0 THEN Error ELSE Done(Drop(i, n), Take(i, n))

\* nom::digit: on the empty slice nom 2 answers Error and nom 3 Incomplete;
\* digit_eof is the answer of the nom the program was built with.
digit(i) ==
    IF i = <<>> THEN [tag |-> digit_eof]
    ELSE digit_run(i, PrefixLen(i, Digits))

\* number_value as it would be if a leading zero were refused.
number_value_strict(d) ==
    IF d.tag # "Done" THEN d
    ELSE IF Len(d.out) > 1 /\ d.out[1] = "0" THEN Error
    ELSE map_res_from_str(sp(d.rest).rest, from_str(d.out, 0))

\* the digits d read by ws!(digit), separators after them skipped, as usize.
number_value(d) ==
    IF d.tag # "Done" THEN d
    ELSE map_res_from_str(sp(d.rest).rest, from_str(d.out, 0))

\* map_res!(map_res!(ws!(digit), str::from_utf8), FromStr::from_str): ws!
\* skips separators before and after the digits.
number(i) == number_value(digit(sp(i).rest))

\* not_marker_start as it would be if '(' did not end a literal run.
not_marker_start_any(x) == TRUE

not_marker_start(x) == x # "("

RECURSIVE take_while_len(_)
\* take_while!(not_marker_start): the number of bytes before the first '('.
take_while_len(i) ==
    IF i = <<>> \/ ~not_marker_start(i[1]) THEN 0
    ELSE 1 + take_while_len(Tail(i))

\* take!(n)
take(i, n) ==
    IF Len(i) < n THEN Incomplete ELSE Done(Drop(i, n), Take(i, n))

\* map_res!(p, str::from_utf8): Error when the bytes are not UTF-8.
map_res_utf8(t) == IF t.tag = "Done" /\ ~Utf8Valid(t.out) THEN Error ELSE t

\* take_str!(n) = map_res!(take!(n), str::from_utf8)
take_str(i, n) == map_res_utf8(take(i, n))

\* the node of uncompressed as it would be without trim_right.
uncompressed_node_untrimmed(data) ==
    IF data.tag # "Done" THEN data
    ELSE Done(data.rest, Uncompressed(data.out))

\* (EzipNode::Uncompressed(data.trim_right().to_string()))
uncompressed_node(data) ==
    IF data.tag # "Done" THEN data
    ELSE Done(data.rest, Uncompressed(trim_right(data.out)))

\* do_parse!(data: map_res!(take_while!(not_marker_start), str::from_utf8) >>
\*           (EzipNode::Uncompressed(..)))
uncompressed(i) ==
    uncompressed_node(map_res_utf8(take(i, take_while_len(i))))

\* do_parse!, the answer x of a step whose value is not kept: the values
\* out read so far go on.
keep_out(x, out) == IF x.tag # "Done" THEN x ELSE Done(x.rest, out)

\* do_parse!, the answer x of a step whose value is kept.
add_out(x, out) ==
    IF x.tag # "Done" THEN x ELSE Done(x.rest, Append(out, x.out))

\* do_parse!, the step ">> char!(c)" after the steps that answered r: a step
\* that is not Done ends the sequence with its Error or Incomplete.
then_char(r, c) ==
    IF r.tag # "Done" THEN r ELSE keep_out(char(r.rest, c), r.out)

\* do_parse!, the step ">> number" after the steps that answered r.
then_number(r) ==
    IF r.tag # "Done" THEN r ELSE add_out(number(r.rest), r.out)

\* the end of marker: (len, count).
marker_value(r) ==
    IF r.tag # "Done" THEN r ELSE Done(r.rest, <<r.out[1], r.out[2]>>)

\* do_parse!(char!('(') >> len: number >> char!('x') >> count: number >>
\*           char!(')') >> (len, count))
marker(i) ==
    marker_value(
        then_char(then_number(then_char(then_number(
            then_char(Done(i, <<>>), "(")), "x")), ")"))

\* the end of marker_len as it would be if it kept the other number.
marker_len_value_count(r) ==
    IF r.tag # "Done" THEN r ELSE Done(r.rest, r.out[2])

\* the end of marker_len: (len).
marker_len_value(r) ==
    IF r.tag # "Done" THEN r ELSE Done(r.rest, r.out[1])

\* do_parse!(char!('(') >> len: number >> char!('x') >> number >>
\*           char!(')') >> (len))
marker_len(i) ==
    marker_len_value(
        then_char(then_number(then_char(then_number(
            then_char(Done(i, <<>>), "(")), "x")), ")"))

\* peek!(p): the result of p with the input left where it was.
peek(i, p) == IF p.tag = "Done" THEN Done(i, p.out) ELSE p

\* complete!(p): Incomplete becomes Error.
complete(p) == IF p.tag = "Incomplete" THEN Error ELSE p

\* alt!(a | b): b runs only when a answers Error.
alt(a, b) == IF a.tag \in {"Done", "Incomplete"} THEN a ELSE b

\* (EzipNode::Compressed(mark.1, children)) with children the answer of
\* map!(take_str!(mark.0), Ezip::build_uncompressed).
compressed_v1_node(count, data) ==
    IF data.tag # "Done" THEN data
    ELSE Done(data.rest, Compressed(count, build_uncompressed(data.out)))

\* compressed_v1 after its marker answered mark.
compressed_v1_children(mark) ==
    IF mark.tag # "Done" THEN mark
    ELSE compressed_v1_node(mark.out[2], take_str(mark.rest, mark.out[1]))

\* compressed version 1: the marker, then mark.0 bytes taken as one
\* uncompressed node.
compressed_v1(i) == compressed_v1_children(marker(i))

RECURSIVE many1_v1_loop(_, _)

\* many1! of nodes_v1, the parser's answer r on inp with the nodes res read
\* so far.  The first element must be Done; later an Error, or a Done that
\* consumed nothing, ends the loop with the nodes it has.
many1_v1_turn(inp, res, r) ==
    CASE r.tag = "Error" -> IF res = <<>> THEN Error ELSE Done(inp, res)
      [] r.tag = "Incomplete" -> Incomplete
      [] r.tag = "Done" ->
            IF res # <<>> /\ Len(r.rest) = Len(inp) THEN Done(inp, res)
            ELSE many1_v1_loop(r.rest, Append(res, r.out))

\* many1! of nodes_v1 after an element: it ends at the end of the input.
many1_v1_loop(inp, res) ==
    IF inp = <<>> THEN Done(inp, res)
    ELSE many1_v1_turn(inp, res, alt(compressed_v1(inp), uncompressed(inp)))

\* many1!(alt!(compressed_v1 | uncompressed))
nodes_v1(i) ==
    many1_v1_turn(i, <<>>, alt(compressed_v1(i), uncompressed(i)))

RECURSIVE nodes_v2(_)
RECURSIVE many1_v2_loop(_, _)

\* length_value_sub as it would be if the input went on where the window's
\* parse stopped.
length_value_sub_inner(i1, sub) == sub

\* length_value!, the answer sub of nodes_v2 on the window: what the
\* window's parse leaves unread is dropped and i1, the input after the
\* window, goes on.
length_value_sub(i1, sub) ==
    IF sub.tag # "Done" THEN sub ELSE Done(i1, sub.out)

\* the window as it would be if it were not cut at m.out bytes.
length_value_take_all(m) == m.rest

\* length_value!, the window: the m.out bytes after the header.
length_value_take(m) == Take(m.rest, m.out)

\* length_value!, after marker_len answered m: m.out bytes are cut off as
\* the window and nodes_v2 runs on the window under complete!.
length_value_window(m) ==
    IF m.tag # "Done" THEN m
    ELSE IF Len(m.rest) < m.out THEN Incomplete
    ELSE length_value_sub(Drop(m.rest, m.out),
                          complete(nodes_v2(length_value_take(m))))

\* length_value!(marker_len, nodes_v2)
length_value(i) == length_value_window(marker_len(i))

\* (EzipNode::Compressed(mark.1, children)) with children the answer of
\* map!(length_value!(marker_len, nodes_v2), Ezip::build).
compressed_v2_node(count, children) ==
    IF children.tag # "Done" THEN children
    ELSE Done(children.rest, Compressed(count, build(children.out)))

\* compressed_v2 after its peeked marker answered mark: the input is still
\* at the marker.
compressed_v2_children(mark) ==
    IF mark.tag # "Done" THEN mark
    ELSE compressed_v2_node(mark.out[2], length_value(mark.rest))

\* compressed version 2: the marker is peeked for its count, then
\* length_value! reads it again and parses the window.
compressed_v2(i) == compressed_v2_children(peek(i, marker(i)))

\* many1! of nodes_v2, as many1_v1_turn.
many1_v2_turn(inp, res, r) ==
    CASE r.tag = "Error" -> IF res = <<>> THEN Error ELSE Done(inp, res)
      [] r.tag = "Incomplete" -> Incomplete
      [] r.tag = "Done" ->
            IF res # <<>> /\ Len(r.rest) = Len(inp) THEN Done(inp, res)
            ELSE many1_v2_loop(r.rest, Append(res, r.out))

many1_v2_loop(inp, res) ==
    IF inp = <<>> THEN Done(inp, res)
    ELSE many1_v2_turn(inp, res, alt(compressed_v2(inp), uncompressed(inp)))

\* many1!(alt!(compressed_v2 | uncompressed))
nodes_v2(i) ==
    many1_v2_turn(i, <<>>, alt(compressed_v2(i), uncompressed(i)))

\* the windows compressed_v2 hands to nodes_v2 when it is applied to i: none
\* unless the marker is read and its m.out bytes are there.
length_value_calls(m) ==
    IF m.tag = "Done" /\ Len(m.rest) >= m.out
    THEN {length_value_take(m)} ELSE {}

compressed_v2_calls(i) ==
    IF peek(i, marker(i)).tag = "Done"
    THEN length_value_calls(marker_len(i)) ELSE {}

RECURSIVE many1_v2_calls(_, _)

\* the windows of the rounds of many1! after the round that answered r on
\* inp: there are none when the loop ends with r.
many1_v2_calls_turn(inp, first, r) ==
    IF r.tag # "Done" THEN {}
    ELSE IF ~first /\ Len(r.rest) = Len(inp) THEN {}
    ELSE many1_v2_calls(r.rest, FALSE)

\* the windows of the rounds of many1! from inp on; first says that no
\* element has been read yet.
many1_v2_calls(inp, first) ==
    IF ~first /\ inp = <<>> THEN {}
    ELSE compressed_v2_calls(inp)
            \cup many1_v2_calls_turn(inp, first,
                    alt(compressed_v2(inp), uncompressed(inp)))

\* the inputs of the calls of nodes_v2 that a call of nodes_v2 on i makes.
nodes_v2_calls(i) == many1_v2_calls(i, TRUE)

\* an element of many1!: the node, the number of bytes of input left before
\* it was read and after.
span(inp, r) == [from |-> Len(inp), to |-> Len(r.rest), node |-> r.out]

RECURSIVE many1_v1_spans(_, _)

\* the elements many1! of nodes_v1 pushes from the round that answered r on.
many1_v1_spans_turn(inp, first, r) ==
    IF r.tag # "Done" THEN <<>>
    ELSE IF ~first /\ Len(r.rest) = Len(inp) THEN <<>>
    ELSE <<span(inp, r)>> \o many1_v1_spans(r.rest, FALSE)

\* the elements many1! of nodes_v1 pushes from inp on, in the order of the
\* pushes.
many1_v1_spans(inp, first) ==
    IF ~first /\ inp = <<>> THEN <<>>
    ELSE many1_v1_spans_turn(inp, first,
            alt(compressed_v1(inp), uncompressed(inp)))

RECURSIVE many1_v2_spans(_, _)

many1_v2_spans_turn(inp, first, r) ==
    IF r.tag # "Done" THEN <<>>
    ELSE IF ~first /\ Len(r.rest) = Len(inp) THEN <<>>
    ELSE <<span(inp, r)>> \o many1_v2_spans(r.rest, FALSE)

\* the elements many1! of nodes_v2 pushes from inp on.
many1_v2_spans(inp, first) ==
    IF ~first /\ inp = <<>> THEN <<>>
    ELSE many1_v2_spans_turn(inp, first,
            alt(compressed_v2(inp), uncompressed(inp)))

RECURSIVE many1_v2_rounds(_, _)

\* the rounds of many1! after the round that answered r on inp.
many1_v2_rounds_turn(inp, first, r) ==
    IF r.tag # "Done" THEN 0
    ELSE IF ~first /\ Len(r.rest) = Len(inp) THEN 0
    ELSE many1_v2_rounds(r.rest, FALSE)

\* the number of times many1! of nodes_v2 applies its parser from inp on.
many1_v2_rounds(inp, first) ==
    IF ~first /\ inp = <<>> THEN 0
    ELSE 1 + many1_v2_rounds_turn(inp, first,
                alt(compressed_v2(inp), uncompressed(inp)))

RECURSIVE many1_v1_rounds(_, _)

many1_v1_rounds_turn(inp, first, r) ==
    IF r.tag # "Done" THEN 0
    ELSE IF ~first /\ Len(r.rest) = Len(inp) THEN 0
    ELSE many1_v1_rounds(r.rest, FALSE)

\* the number of times many1! of nodes_v1 applies its parser from inp on.
many1_v1_rounds(inp, first) ==
    IF ~first /\ inp = <<>> THEN 0
    ELSE 1 + many1_v1_rounds_turn(inp, first,
                alt(compressed_v1(inp), uncompressed(inp)))

\* map!(p, Ezip::build)
map_build(p) == IF p.tag = "Done" THEN Done(p.rest, build(p.out)) ELSE p

parse_ezipv1(i) == map_build(nodes_v1(i))
parse_ezipv2(i) == map_build(nodes_v2(i))

\* s.as_bytes() is the input itself: the model keeps strings as their bytes.
ezipv1(s) == parse_ezipv1(s)
ezipv2(s) == parse_ezipv2(s)

(***************************************************************************)
(* Day 08: the Screen.  width and height are fixed at construction; the    *)
(* pixels are a vector in row order, pixel (x, y) at index width * y + x,  *)
(* TRUE for a lit pixel.                                                   *)
(***************************************************************************)
ScreenWidth == 3
ScreenHeight == 2

\* the number of operations of a run of the model.
MaxOps == 3

\* enum Operation
Rect(width, height) == [kind |-> "Rect", a |-> width, b |-> height]
RotateRow(y, xoffset) == [kind |-> "RotateRow", a |-> y, b |-> xoffset]
RotateCol(x, yoffset) == [kind |-> "RotateCol", a |-> x, b |-> yoffset]

\* no operation was executed yet.
NoOperation == [kind |-> "None"]

\* Screen::blank: width * height pixels, all off.
blank(width, height) == [i \in 0..(width * height - 1) |-> FALSE]

\* Screen::pixel_at
pixel_at(px, x, y) == px[ScreenWidth * y + x]

\* Screen::voltage_usage: the number of pixels lit.
voltage_usage(px) == Cardinality({i \in DOMAIN px : px[i]})

\* what an operation leaves: the pixels and the value it returns.
Executed(px, r) == [pixels |-> px, ret |-> r]

\* the loops of rect: pixel_at_mut(x, y).turn_on() for y < height, x < width.
rect_turn_on(px, width, height) ==
    [i \in DOMAIN px |->
        \/ px[i]
        \/ \E y \in 0..(height - 1), x \in 0..(width - 1) :
              i = ScreenWidth * y + x]

\* Screen::rect
rect(px, width, height) ==
    IF width > ScreenWidth \/ height > ScreenHeight
    THEN Executed(px, FALSE)
    ELSE Executed(rect_turn_on(px, width, height), TRUE)

\* the copies of rotate_row as they would be if the row were shifted to the
\* left.
rotate_row_copy_left(px, row_start, row_end, xoffset) ==
    [i \in DOMAIN px |->
        IF row_start <= i /\ i < row_end - xoffset
        THEN px[i + xoffset]
        ELSE IF row_end - xoffset <= i /\ i < row_end
        THEN px[i - (ScreenWidth - xoffset)]
        ELSE px[i]]

\* the three copies of rotate_row: buf is the row pixels[row_start..row_end];
\* pixels[(row_start + xoffset)..row_end] gets buf[0..(width - xoffset)] and
\* pixels[row_start..(row_start + xoffset)] gets buf[(width - xoffset)..width].
rotate_row_copy(px, row_start, row_end, xoffset) ==
    [i \in DOMAIN px |->
        IF row_start + xoffset <= i /\ i < row_end
        THEN px[row_start + (i - (row_start + xoffset))]
        ELSE IF row_start <= i /\ i < row_start + xoffset
        THEN px[row_start + (ScreenWidth - xoffset) + (i - row_start)]
        ELSE px[i]]

\* Screen::rotate_row
rotate_row(px, y, xoffset) ==
    IF y >= ScreenHeight \/ xoffset >= ScreenWidth
    THEN Executed(px, FALSE)
    ELSE Executed(rotate_row_copy(px, y * ScreenWidth, (y + 1) * ScreenWidth,
                                  xoffset), TRUE)

\* the first loop of rotate_col: col[y] = *pixel_at(x, y).
rotate_col_read(px, x) ==
    [y \in 0..(ScreenHeight - 1) |-> pixel_at(px, x, y)]

RECURSIVE rotate_col_write(_, _, _, _, _)
\* the second loop of rotate_col from y on:
\* *pixel_at_mut(x, (y + yoffset) % height) = col[y].
rotate_col_write(px, col, x, yoffset, y) ==
    IF y >= ScreenHeight THEN px
    ELSE rotate_col_write(
            [px EXCEPT ![ScreenWidth * ((y + yoffset) % ScreenHeight) + x]
                          = col[y]],
            col, x, yoffset, y + 1)

\* rotate_col as it would be if it took any offset and reduced it modulo the
\* height.
rotate_col_reduced(px, x, yoffset) ==
    IF x >= ScreenWidth
    THEN Executed(px, FALSE)
    ELSE Executed(rotate_col_write(px, rotate_col_read(px, x), x,
                                   yoffset % ScreenHeight, 0), TRUE)

\* Screen::rotate_col
rotate_col(px, x, yoffset) ==
    IF x >= ScreenWidth \/ yoffset >= ScreenHeight
    THEN Executed(px, FALSE)
    ELSE Executed(rotate_col_write(px, rotate_col_read(px, x), x, yoffset, 0),
                  TRUE)

\* Screen::execute
execute(px, o) ==
    CASE o.kind = "Rect" -> rect(px, o.a, o.b)
      [] o.kind = "RotateRow" -> rotate_row(px, o.a, o.b)
      [] o.kind = "RotateCol" -> rotate_col(px, o.a, o.b)

\* the Screen after Screen::blank(ScreenWidth, ScreenHeight).
ScreenBlank ==
    /\ pixels = blank(ScreenWidth, ScreenHeight)
    /\ op = NoOperation
    /\ ret = FALSE
    /\ before = blank(ScreenWidth, ScreenHeight)
    /\ nops = 0

(***************************************************************************)
(* The inputs: concatenations of at most MaxChunks chunks.                 *)
(***************************************************************************)
Chunks ==
    { <<"A">>, <<" ">>, <<"(">>,
      <<"(", "0", "x", "2", ")">>,
      <<"(", "1", "x", "2", ")">>,
      <<"(", "2", "x", "2", ")">>,
      <<"(", "6", "x", "0", ")">>,
      <<"(", "6", "x", "2", ")">> }

RECURSIVE Inputs(_)
Inputs(n) ==
    IF n = 0 THEN {<<>>}
    ELSE LET prev == Inputs(n - 1)
         IN prev \cup {p \o c : p \in prev, c \in Chunks}

DigitEofAnswers == {"Error", "Incomplete"}

\* the builds: with overflow checks (TRUE, debug) or without (FALSE, release).
Builds == BOOLEAN

(***************************************************************************)
(* The program: an input string, then Ezip::parse_v1 and Ezip::parse_v2   *)
(* called on it, in either order.                                          *)
(***************************************************************************)
Init ==
    /\ input \in Inputs(MaxChunks)
    /\ digit_eof \in DigitEofAnswers
    /\ overflow_checks \in Builds
    /\ ir1 = NotRun
    /\ r1 = NotRun
    /\ ir2 = NotRun
    /\ r2 = NotRun
    /\ len1 = NotRun
    /\ len2 = NotRun
    /\ prev1 = NotRun
    /\ prev2 = NotRun
    /\ ScreenBlank

\* Ezip::parse_v1(s) = parsing::ezipv1(s).to_full_result()
parse_v1 ==
    /\ ir1 = NotRun
    /\ ir1' = ezipv1(input)
    /\ r1' = to_full_result(ezipv1(input))
    /\ UNCHANGED <<fixed, screen, ir2, r2, len1, len2, prev1, prev2>>

\* Ezip::parse_v2(s) = parsing::ezipv2(s).to_full_result()
\* parse_v2 as it would be if the parsers kept state from one parse to the
\* next: after parse_v1 it answers what parse_v1 left.
parse_v2_shared ==
    /\ ir2 = NotRun
    /\ ir2' = (IF ir1 = NotRun THEN ezipv2(input) ELSE ir1)
    /\ r2' = (IF r1 = NotRun THEN to_full_result(ezipv2(input)) ELSE r1)
    /\ UNCHANGED <<fixed, screen, ir1, r1, len1, len2, prev1, prev2>>

parse_v2 ==
    /\ ir2 = NotRun
    /\ ir2' = ezipv2(input)
    /\ r2' = to_full_result(ezipv2(input))
    /\ UNCHANGED <<fixed, screen, ir1, r1, len1, len2, prev1, prev2>>

\* the parser alone: Ezip::parse_v1 and Ezip::parse_v2.
Next == parse_v1 \/ parse_v2

Spec == Init /\ [][Next]_vars

(***************************************************************************)
(* The evaluator, called on the documents the parser returned.             *)
(***************************************************************************)
\* compressed.uncompressed_len() on the document of parse_v1, in the build
\* of the program; prev1 keeps the result of the call before.  The document
\* is borrowed (&self) and stays as it is.  Two calls are followed.
\* uncompressed_len as it would be if it took the nodes out of the document
\* it measures.
uncompressed_len_v1_draining ==
    /\ r1 # NotRun
    /\ r1.ok
    /\ prev1 = NotRun
    /\ len1' = Ezip_uncompressed_len(r1.val, overflow_checks)
    /\ prev1' = len1
    /\ r1' = [r1 EXCEPT !.val = build(<<>>)]
    /\ UNCHANGED <<fixed, screen, ir1, ir2, r2, len2, prev2>>

uncompressed_len_v1 ==
    /\ r1 # NotRun
    /\ r1.ok
    /\ prev1 = NotRun
    /\ len1' = Ezip_uncompressed_len(r1.val, overflow_checks)
    /\ prev1' = len1
    /\ UNCHANGED <<fixed, screen, ir1, r1, ir2, r2, len2, prev2>>

\* compressed.uncompressed_len() on the document of parse_v2.
uncompressed_len_v2 ==
    /\ r2 # NotRun
    /\ r2.ok
    /\ prev2 = NotRun
    /\ len2' = Ezip_uncompressed_len(r2.val, overflow_checks)
    /\ prev2' = len2
    /\ UNCHANGED <<fixed, screen, ir1, r1, ir2, r2, len1, prev1>>

\* the parser and the evaluator.
NextEval ==
    parse_v1 \/ parse_v2 \/ uncompressed_len_v1 \/ uncompressed_len_v2

(***************************************************************************)
(* The program on inputs at the edges of the format: a two-byte            *)
(* character, markers of length 0 and of count 0, and counts whose         *)
(* products do not fit a usize.                                            *)
(***************************************************************************)
MaxEdgeChunks == 3

EdgeChunks ==
    { <<"A">>, <<"C3", "A9">>,
      <<"(", "0", "x", "0", ")">>,
      <<"(", "1", "x", "0", ")">>,
      <<"(", "1", "x", "2", ")">>,
      <<"(", "2", "x", "2", ")">>,
      <<"(", "1", "x", "5", "1", "2", ")">>,
      <<"(", "8", "x", "5", "1", "2", ")">>,
      <<"(", "2", "x", "4", "0", "0", "0", "0", ")">> }

RECURSIVE EdgeInputs(_)
EdgeInputs(n) ==
    IF n = 0 THEN {<<>>}
    ELSE LET prev == EdgeInputs(n - 1)
         IN prev \cup {p \o c : p \in prev, c \in EdgeChunks}

InitEdge ==
    /\ input \in EdgeInputs(MaxEdgeChunks)
    /\ digit_eof \in DigitEofAnswers
    /\ overflow_checks \in Builds
    /\ ir1 = NotRun
    /\ r1 = NotRun
    /\ ir2 = NotRun
    /\ r2 = NotRun
    /\ len1 = NotRun
    /\ len2 = NotRun
    /\ prev1 = NotRun
    /\ prev2 = NotRun
    /\ ScreenBlank

SpecEdge == InitEdge /\ [][NextEval]_vars

(***************************************************************************)
(* The parser on inputs whose marker headers are written in other ways:    *)
(* spaces, tabs and newlines around the numbers, leading zeros, signs.     *)
(***************************************************************************)
MaxHeaderChunks == 3

HeaderChunks ==
    { <<"A">>, <<" ">>,
      <<"(", "1", "x", "2", ")">>,
      <<"(", "6", "x", "3", ")", "(", "1", "x", "2", ")">>,
      <<"(", " ", "1", " ", "x", " ", "2", " ", ")">>,
      <<"(", "1", "\t", "x", "2", ")">>,
      <<"(", "\n", "2", "x", "3", "\r", ")">>,
      <<"(", "0", "1", "x", "0", "2", ")">>,
      <<"(", "+", "1", "x", "2", ")">>,
      <<"(", "1", "x", "-", "2", ")">> }

RECURSIVE HeaderInputs(_)
HeaderInputs(n) ==
    IF n = 0 THEN {<<>>}
    ELSE LET prev == HeaderInputs(n - 1)
         IN prev \cup {p \o c : p \in prev, c \in HeaderChunks}

InitHeader ==
    /\ input \in HeaderInputs(MaxHeaderChunks)
    /\ digit_eof \in DigitEofAnswers
    /\ overflow_checks \in Builds
    /\ ir1 = NotRun
    /\ r1 = NotRun
    /\ ir2 = NotRun
    /\ r2 = NotRun
    /\ len1 = NotRun
    /\ len2 = NotRun
    /\ prev1 = NotRun
    /\ prev2 = NotRun
    /\ ScreenBlank

SpecHeader == InitHeader /\ [][Next]_vars

(***************************************************************************)
(* Day 08: main makes a blank Screen and executes the operations of its    *)
(* input on it, one after the other; the value execute returns is dropped  *)
(* by main and kept here in ret.                                           *)
(***************************************************************************)
\* the numbers an operation is given for a column or a width: the columns
\* of the screen, its width, and one more.
AcrossArgs == 0..(ScreenWidth + 1)

\* the same for a row or a height.
DownArgs == 0..(ScreenHeight + 1)

InitScreen ==
    /\ ScreenBlank
    /\ input = <<>>
    /\ digit_eof = "Error"
    /\ overflow_checks = TRUE
    /\ ir1 = NotRun
    /\ r1 = NotRun
    /\ ir2 = NotRun
    /\ r2 = NotRun
    /\ len1 = NotRun
    /\ len2 = NotRun
    /\ prev1 = NotRun
    /\ prev2 = NotRun

\* screen.execute(o)
execute_operation(o) ==
    /\ nops < MaxOps
    /\ nops' = nops + 1
    /\ op' = o
    /\ before' = pixels
    /\ pixels' = execute(pixels, o).pixels
    /\ ret' = execute(pixels, o).ret
    /\ UNCHANGED <<fixed, ir1, r1, ir2, r2, len1, len2, prev1, prev2>>

execute_Rect ==
    \E width \in AcrossArgs, height \in DownArgs :
        execute_operation(Rect(width, height))

execute_RotateRow ==
    \E y \in DownArgs, xoffset \in AcrossArgs :
        execute_operation(RotateRow(y, xoffset))

execute_RotateCol ==
    \E x \in AcrossArgs, yoffset \in DownArgs :
        execute_operation(RotateCol(x, yoffset))

NextScreen == execute_Rect \/ execute_RotateRow \/ execute_RotateCol

SpecScreen == InitScreen /\ [][NextScreen]_vars

(***************************************************************************)
(* The format as the specification words it, read off the input by         *)
(* position, without the parser: what the claims below compare against.    *)
(***************************************************************************)
RECURSIVE RefSkip(_, _, _)
\* the first position from p on whose byte is not in S (Len(s) + 1 if none).
RefSkip(s, p, S) ==
    IF p > Len(s) \/ s[p] \notin S THEN p ELSE RefSkip(s, p + 1, S)

RECURSIVE RefOpener(_, _, _)
\* the position of the first '(' in s[p .. hi] (hi + 1 if there is none).
RefOpener(s, p, hi) ==
    IF p > hi \/ s[p] = "(" THEN p ELSE RefOpener(s, p + 1, hi)

RECURSIVE RefNum(_, _, _)
\* the decimal value of the digits s[p .. q].
RefNum(s, p, q) ==
    IF q < p THEN 0 ELSE 10 * RefNum(s, p, q - 1) + DigitVal(s[q])

\* the header '(' ws* digits ws* 'x' ws* digits ws* ')' at position p, with
\* ws the ASCII space: its two numbers and the position after its ')'.
RefMarkerAt(s, p) ==
    LET a == RefSkip(s, p + 1, {" "})
        b == RefSkip(s, a, Digits)
        c == RefSkip(s, b, {" "})
        e == RefSkip(s, c + 1, {" "})
        f == RefSkip(s, e, Digits)
        g == RefSkip(s, f, {" "})
        ok == /\ p <= Len(s) /\ s[p] = "("
              /\ b > a
              /\ c <= Len(s) /\ s[c] = "x"
              /\ f > e
              /\ g <= Len(s) /\ s[g] = ")"
    IN IF ok THEN [ok |-> TRUE, L |-> RefNum(s, a, b - 1),
                   R |-> RefNum(s, e, f - 1), next |-> g + 1]
       ELSE [ok |-> FALSE]

RECURSIVE RefTrimEnd(_, _, _)
\* the last position of the run s[p .. q] after its trailing white space is
\* dropped (p - 1 when nothing is left).
RefTrimEnd(s, p, q) ==
    IF q < p \/ s[q] \notin WhiteSpace THEN q ELSE RefTrimEnd(s, p, q - 1)

\* the length of the literal run s[p .. q], trimmed or not.
RefRunLen(s, p, q, trim) ==
    IF trim THEN RefTrimEnd(s, p, q) - p + 1 ELSE q - p + 1

RefOk(n) == [status |-> "ok", len |-> n]
RefBad(st) == [status |-> st, len |-> 0]
RefAdd(n, r) == IF r.status = "ok" THEN RefOk(n + r.len) ELSE r

RECURSIVE RefFlat(_, _)
\* flat mode from position p: literal runs trimmed, and L * R for a marker
\* whose L following characters are plain text.
RefFlat(s, p) ==
    IF p > Len(s) THEN RefOk(0)
    ELSE IF s[p] = "("
    THEN LET h == RefMarkerAt(s, p)
         IN IF ~h.ok THEN RefBad("malformed")
            ELSE IF h.next + h.L - 1 > Len(s) THEN RefBad("truncated")
            ELSE RefAdd(h.L * h.R, RefFlat(s, h.next + h.L))
    ELSE LET q == RefOpener(s, p, Len(s))
         IN RefAdd(RefRunLen(s, p, q - 1, TRUE), RefFlat(s, q))

RECURSIVE RefRec(_, _, _, _, _)
\* recursive mode on the window s[p .. hi]: R times the length of the window
\* of L characters after a marker.  top says the window is the whole input,
\* trim whether literal runs are trimmed.
RefRec(s, p, hi, top, trim) ==
    IF p > hi THEN RefOk(0)
    ELSE IF s[p] = "("
    THEN LET h == RefMarkerAt(SubSeq(s, 1, hi), p)
         IN IF ~h.ok
            THEN RefBad(IF top THEN "malformed" ELSE "malformed_in")
            ELSE IF h.next + h.L - 1 > Len(s)
            THEN RefBad(IF top THEN "truncated" ELSE "truncated_in")
            ELSE IF h.next + h.L - 1 > hi THEN RefBad("overrun")
            ELSE LET body == RefRec(s, h.next, h.next + h.L - 1, FALSE, trim)
                 IN IF body.status # "ok" THEN body
                    ELSE RefAdd(h.R * body.len,
                                RefRec(s, h.next + h.L, hi, top, trim))
    ELSE LET q == RefOpener(s, p, hi)
         IN RefAdd(RefRunLen(s, p, q - 1, trim), RefRec(s, q, hi, top, trim))

RefFlatOf(s) == RefFlat(s, 1)
RefRecOf(s, trim) == RefRec(s, 1, Len(s), TRUE, trim)

(***************************************************************************)
(* What the claims speak of.                                               *)
(***************************************************************************)
Ran1 == r1 # NotRun
Ran2 == r2 # NotRun
Ok1 == Ran1 /\ r1.ok
Ok2 == Ran2 /\ r2.ok
Len1 == Ezip_uncompressed_len(r1.val, FALSE).v
Len2 == Ezip_uncompressed_len(r2.val, FALSE).v

NoOpener(s) == RefOpener(s, 1, Len(s)) > Len(s)

RECURSIVE RefNested(_, _)
\* some marker's payload, in the flat reading from position p, holds a '('.
RefNested(s, p) ==
    IF p > Len(s) THEN FALSE
    ELSE IF s[p] = "("
    THEN LET h == RefMarkerAt(s, p)
         IN IF ~h.ok \/ h.next + h.L - 1 > Len(s) THEN FALSE
            ELSE \/ RefOpener(s, h.next, h.next + h.L - 1) <= h.next + h.L - 1
                 \/ RefNested(s, h.next + h.L)
    ELSE RefNested(s, RefOpener(s, p, Len(s)))

\* well-formed in both readings.
WellFormed(s) ==
    /\ RefFlatOf(s).status = "ok"
    /\ RefRecOf(s, FALSE).status = "ok"

\* C1: for every well-formed input parse_v1 succeeds and the length is the
\* sum of the trimmed top-level literal runs plus L * R for every marker.
C1_FlatLength ==
    (Ran1 /\ RefFlatOf(input).status = "ok")
        => (r1.ok /\ Len1 = RefFlatOf(input).len)

\* C2: for every well-formed input parse_v2 succeeds and the length is the
\* recursive reference value: literal run lengths plus R times the length of
\* the L characters after each marker, to any depth.
C2_RecursiveLength ==
    (Ran2 /\ RefRecOf(input, FALSE).status = "ok")
        => (r2.ok /\ Len2 = RefRecOf(input, FALSE).len)

\* C3: for every well-formed input the flat-mode length is at most the
\* recursive-mode length.
C3_FlatAtMostRecursive ==
    (Ok1 /\ Ok2 /\ WellFormed(input)) => Len1 <= Len2

\* C4: for every well-formed input the two lengths are equal exactly when no
\* marker's payload contains another marker.
C4_EqualIffNoNesting ==
    (Ok1 /\ Ok2 /\ WellFormed(input))
        => ((Len1 = Len2) <=> ~RefNested(input, 1))

\* C5: an opener whose header is malformed makes parse_v1 and parse_v2
\* return an error, never an Ok document.
C5_MalformedIsError ==
    /\ (Ran1 /\ RefFlatOf(input).status = "malformed") => ~r1.ok
    /\ (Ran2 /\ RefRecOf(input, FALSE).status \in {"malformed", "malformed_in"})
          => ~r2.ok

\* C6: whenever a parse returns Ok its cursor is at the end of the input.
C6_OkConsumesAll ==
    /\ Ok1 => ir1.rest = <<>>
    /\ Ok2 => ir2.rest = <<>>

\* C7: in recursive mode, a window whose sub-parse cannot consume exactly its
\* L characters makes parse_v2 return an error.
C7_WindowNotConsumedIsError ==
    (Ran2 /\ RefRecOf(input, FALSE).status
                \in {"overrun", "truncated_in", "malformed_in"})
        => ~r2.ok

\* C8: in both modes a well-formed marker followed by fewer than L characters
\* makes the parse return an error.
C8_TruncatedIsError ==
    /\ (Ran1 /\ RefFlatOf(input).status = "truncated") => ~r1.ok
    /\ (Ran2 /\ RefRecOf(input, FALSE).status \in {"truncated", "truncated_in"})
          => ~r2.ok

\* the run s[p .. q] without its trailing white space.
RefTrim(s, p, q) == SubSeq(s, p, RefTrimEnd(s, p, q))

RECURSIVE RefPayloads(_, _)
\* the payloads of the markers in the flat reading from position p, up to the
\* first opener that starts no marker.
RefPayloads(s, p) ==
    IF p > Len(s) THEN <<>>
    ELSE IF s[p] = "("
    THEN LET h == RefMarkerAt(s, p)
         IN IF ~h.ok \/ h.next + h.L - 1 > Len(s) THEN <<>>
            ELSE <<SubSeq(s, h.next, h.next + h.L - 1)>>
                    \o RefPayloads(s, h.next + h.L)
    ELSE RefPayloads(s, RefOpener(s, p, Len(s)))

RECURSIVE FlatBodies(_, _)
\* the texts of the bodies of the first n nodes' Compressed nodes.
FlatBodies(nodes, n) ==
    IF n = 0 THEN <<>>
    ELSE FlatBodies(nodes, n - 1) \o
            (IF nodes[n].kind = "Compressed"
             THEN <<nodes[n].children.nodes[1].text>> ELSE <<>>)

Trimmed(t) == t = <<>> \/ t[Len(t)] \notin WhiteSpace

RECURSIVE AllRunsTrimmed(_)
\* every Uncompressed node of the document, at any depth, is trimmed.
AllRunsTrimmed(ezip) ==
    \A k \in 1..Len(ezip.nodes) :
        IF ezip.nodes[k].kind = "Uncompressed"
        THEN Trimmed(ezip.nodes[k].text)
        ELSE AllRunsTrimmed(ezip.nodes[k].children)

TopRunsTrimmed(ezip) ==
    \A k \in 1..Len(ezip.nodes) :
        ezip.nodes[k].kind = "Uncompressed" => Trimmed(ezip.nodes[k].text)

\* the input is one marker whose payload is a non-empty run without '(' that
\* ends the input.
OneMarker(s) ==
    LET h == RefMarkerAt(s, 1)
    IN /\ h.ok
       /\ h.L >= 1
       /\ h.next + h.L - 1 = Len(s)
       /\ RefOpener(s, h.next, Len(s)) > Len(s)

OneMarkerPayload(s) == SubSeq(s, RefMarkerAt(s, 1).next, Len(s))

C10_NoMarkerLength ==
    NoOpener(input) =>
        /\ Ran1 => (r1.ok /\ Len1 = RefRunLen(input, 1, Len(input), TRUE))
        /\ Ran2 => (r2.ok /\ Len2 = Len(input))

\* C11: for the empty input both parse_v1 and parse_v2 succeed, and the
\* length of the document is 0.
C11_EmptyInput ==
    input = <<>> =>
        /\ Ran1 => (r1.ok /\ Len1 = 0)
        /\ Ran2 => (r2.ok /\ Len2 = 0)

RECURSIVE FoldNodes(_)
\* the fold as the specification writes it, in unbounded integers: a literal
\* gives the length of its text, a Compressed node its count times the fold
\* of its body, a sequence of nodes the sum over its nodes.
FoldNodes(nodes) ==
    IF nodes = <<>> THEN 0
    ELSE (IF Head(nodes).kind = "Uncompressed"
          THEN Len(Head(nodes).text)
          ELSE Head(nodes).repeat * FoldNodes(Head(nodes).children.nodes))
         + FoldNodes(Tail(nodes))

Evaluated1 == len1 # NotRun
Evaluated2 == len2 # NotRun

\* C12: uncompressed_len is the fold: count times the sum of the body's
\* contributions for a Compressed node, the sum of the nodes' contributions
\* for a document, and nothing else.
C12_LengthIsFold ==
    /\ Evaluated1 => len1 = Val(FoldNodes(r1.val.nodes))
    /\ Evaluated2 => len2 = Val(FoldNodes(r2.val.nodes))

RECURSIVE CharCount(_)
\* the number of characters of a UTF-8 string: every byte but the
\* continuation bytes starts one.
CharCount(s) ==
    IF s = <<>> THEN 0
    ELSE (IF s[1] \in ContBytes THEN 0 ELSE 1) + CharCount(Tail(s))

RECURSIVE CharPrefixLen(_, _)
\* the number of bytes of the first n characters of s (of all of s when it
\* has fewer).
CharPrefixLen(s, n) ==
    IF s = <<>> THEN 0
    ELSE IF s[1] \in LeadBytes
    THEN (IF n = 0 THEN 0 ELSE 2 + CharPrefixLen(Drop(s, 2), n - 1))
    ELSE (IF n = 0 THEN 0 ELSE 1 + CharPrefixLen(Tail(s), n - 1))

\* the text after the header of the marker at the start of s.
AfterHeader(s) == Drop(s, RefMarkerAt(s, 1).next - 1)

\* s starts with a marker followed by at least its L characters.
LeadingMarker(s) ==
    /\ RefMarkerAt(s, 1).ok
    /\ CharCount(AfterHeader(s)) >= RefMarkerAt(s, 1).L

\* C13: a literal contributes its number of characters, not of bytes, and a
\* flat-mode marker (LxR) takes exactly L characters as its payload, also
\* when characters have more than one byte.
C13_CharacterCounts ==
    /\ (Evaluated1 /\ NoOpener(input))
          => len1 = Val(CharCount(RefTrim(input, 1, Len(input))))
    /\ (Ok1 /\ LeadingMarker(input))
          => /\ r1.val.nodes[1].kind = "Compressed"
             /\ r1.val.nodes[1].children.nodes[1].text
                   = Take(AfterHeader(input),
                          CharPrefixLen(AfterHeader(input),
                                        RefMarkerAt(input, 1).L))

\* C14: the evaluated length is the exact mathematical value: uncompressed_len
\* neither panics nor wraps around when a product repeat * body length or a
\* sum exceeds the width of usize.
C14_NoOverflow ==
    /\ Evaluated1 => (len1.tag = "Val" /\ len1.v = FoldNodes(r1.val.nodes))
    /\ Evaluated2 => (len2.tag = "Val" /\ len2.v = FoldNodes(r2.val.nodes))

\* s starts with a marker of count 0 followed by at least its L characters.
ZeroCountMarker(s) == LeadingMarker(s) /\ RefMarkerAt(s, 1).R = 0

\* the text after the L-character payload of the marker at the start of s.
AfterPayload(s) ==
    Drop(AfterHeader(s), CharPrefixLen(AfterHeader(s), RefMarkerAt(s, 1).L))

\* C15: in both modes a marker with count 0 contributes 0 whatever its
\* payload is, and the text after its L-character payload is parsed and
\* counted.
C15_ZeroCount ==
    /\ (Ran1 /\ ZeroCountMarker(input)
             /\ RefFlatOf(AfterPayload(input)).status = "ok")
          => (r1.ok /\ Len1 = RefFlatOf(AfterPayload(input)).len)
    /\ (Ran2 /\ ZeroCountMarker(input)
             /\ RefRecOf(AfterPayload(input), TRUE).status = "ok")
          => (r2.ok /\ Len2 = RefRecOf(AfterPayload(input), TRUE).len)

RECURSIVE RefCharPayloads(_)
\* the payloads of the markers of s in the flat reading, each the L
\* characters after its header, up to the first opener that starts no
\* marker or has fewer than L characters after it.
RefCharPayloads(s) ==
    IF s = <<>> THEN <<>>
    ELSE IF s[1] # "(" THEN RefCharPayloads(Drop(s, RefOpener(s, 1, Len(s)) - 1))
    ELSE IF ~LeadingMarker(s) THEN <<>>
    ELSE <<Take(AfterHeader(s),
                CharPrefixLen(AfterHeader(s), RefMarkerAt(s, 1).L))>>
            \o RefCharPayloads(AfterPayload(s))

\* every Compressed node of the sequence has a body of one Uncompressed node.
OneLiteralBodies(nodes) ==
    \A k \in 1..Len(nodes) :
        nodes[k].kind = "Compressed"
            => /\ Len(nodes[k].children.nodes) = 1
               /\ nodes[k].children.nodes[1].kind = "Uncompressed"

\* C16: in a document of parse_v1 the body of every Compressed node is one
\* Uncompressed node whose text is the L characters after the marker's ')',
\* as they are: not trimmed, not parsed again, exactly L of them.
C16_FlatBodyVerbatim ==
    Ok1 => /\ OneLiteralBodies(r1.val.nodes)
           /\ FlatBodies(r1.val.nodes, Len(r1.val.nodes))
                 = RefCharPayloads(input)

\* the window of the marker at the start of s: the L characters after its
\* header.
Window(s) ==
    Take(AfterHeader(s),
         CharPrefixLen(AfterHeader(s), RefMarkerAt(s, 1).L))

\* C17: in a document of parse_v2 the body of a Compressed node is the
\* document parsed from exactly the L characters after the marker's ')': the
\* parse of the window reads all of it and nothing else, and the outer parse
\* goes on right after the window.
C17_WindowExact ==
    (Ok2 /\ LeadingMarker(input))
        => /\ r2.val.nodes[1].kind = "Compressed"
           /\ nodes_v2(Window(input)).tag = "Done"
           /\ nodes_v2(Window(input)).rest = <<>>
           /\ r2.val.nodes[1].children.nodes = nodes_v2(Window(input)).out
           /\ Len(ir2.rest) <= Len(AfterPayload(input))

\* C18: in flat mode a literal run that is empty after trimming is not
\* emitted: a document of parse_v1 has no Uncompressed node with empty text
\* outside a marker's body.
C18_NoEmptyLiteral ==
    Ok1 => \A k \in 1..Len(r1.val.nodes) :
              r1.val.nodes[k].kind = "Uncompressed"
                  => r1.val.nodes[k].text # <<>>

NoOpenerIn(t) == \A k \in 1..Len(t) : t[k] # "("

\* the literal nodes of the sequence hold no '(' and no two of them are
\* neighbours.
LiteralRuns(nodes) ==
    /\ \A k \in 1..Len(nodes) :
          nodes[k].kind = "Uncompressed" => NoOpenerIn(nodes[k].text)
    /\ \A k \in 1..(Len(nodes) - 1) :
          ~(nodes[k].kind = "Uncompressed"
              /\ nodes[k + 1].kind = "Uncompressed")

RECURSIVE LiteralRunsDeep(_)
\* LiteralRuns for the document and for every body in it.
LiteralRunsDeep(ezip) ==
    /\ LiteralRuns(ezip.nodes)
    /\ \A k \in 1..Len(ezip.nodes) :
          ezip.nodes[k].kind = "Compressed"
              => LiteralRunsDeep(ezip.nodes[k].children)

\* C19: a literal run ends before the next '(' or at the end of the
\* (sub-)input: a node of the literal-run parser never holds '(' and two such
\* nodes are never neighbours, at top level in both modes and in the bodies
\* of recursive mode.
C19_LiteralRunMaximal ==
    /\ Ok1 => LiteralRuns(r1.val.nodes)
    /\ Ok2 => LiteralRunsDeep(r2.val)

\* both parses gave a literal, a marker and a literal again, the marker's
\* body in recursive mode being a literal.
C19_Witness ==
    /\ Ok1 /\ Ok2
    /\ Len(r1.val.nodes) = 3 /\ Len(r2.val.nodes) = 3
    /\ r1.val.nodes[1] = Uncompressed(<<"A">>)
    /\ r1.val.nodes[2].kind = "Compressed"
    /\ r1.val.nodes[3] = Uncompressed(<<"A">>)
    /\ r2.val.nodes[1] = Uncompressed(<<"A">>)
    /\ r2.val.nodes[2].children.nodes = <<Uncompressed(<<"A">>)>>
    /\ r2.val.nodes[3] = Uncompressed(<<"A">>)

RECURSIVE CallsShorter(_)
\* every call of nodes_v2 made from the call on i, directly or not, is on an
\* input strictly shorter than that of the call which makes it.
CallsShorter(i) ==
    \A w \in nodes_v2_calls(i) : Len(w) < Len(i) /\ CallsShorter(w)

\* the largest number of the set S of naturals, 0 when S is empty.
MaxOf(S) == IF S = {} THEN 0 ELSE CHOOSE m \in S : \A n \in S : n <= m

RECURSIVE CallDepth(_)
\* the depth the calls of nodes_v2 reach below the call on i.
CallDepth(i) == MaxOf({1 + CallDepth(w) : w \in nodes_v2_calls(i)})

\* s starts with a marker followed by at least L bytes, L as the program
\* counts it.
LeadingMarkerBytes(s) ==
    /\ RefMarkerAt(s, 1).ok
    /\ Len(AfterHeader(s)) >= RefMarkerAt(s, 1).L

RECURSIVE RefDepth(_)
\* the nesting depth of the markers of s: a marker followed by its L bytes
\* counts one more than the markers among those bytes.
RefDepth(s) ==
    IF s = <<>> THEN 0
    ELSE IF s[1] # "(" THEN RefDepth(Drop(s, RefOpener(s, 1, Len(s)) - 1))
    ELSE IF ~LeadingMarkerBytes(s) THEN 0
    ELSE MaxOf({1 + RefDepth(Take(AfterHeader(s), RefMarkerAt(s, 1).L)),
                RefDepth(Drop(AfterHeader(s), RefMarkerAt(s, 1).L))})

\* C20: parsing ends on every input in both modes: a round of the loop that
\* reads nothing ends it, so the loop makes at most one round per byte and
\* one more; every nested call of nodes_v2 is on a window strictly shorter
\* than the input of the call that makes it, and the calls go no deeper than
\* the markers of the input nest.
C20_Terminates ==
    /\ Ran1 => /\ ir1.tag \in {"Done", "Error", "Incomplete"}
               /\ many1_v1_rounds(input, TRUE) <= Len(input) + 1
    /\ Ran2 => /\ ir2.tag \in {"Done", "Error", "Incomplete"}
               /\ many1_v2_rounds(input, TRUE) <= Len(input) + 1
               /\ CallsShorter(input)
               /\ CallDepth(input) <= RefDepth(input)

\* parse_v2 has answered for an input whose markers nest two deep, with
\* calls of nodes_v2 two deep.
C20_Witness ==
    /\ Ok2
    /\ CallDepth(input) = 2
    /\ RefDepth(input) = 2
    /\ many1_v2_rounds(input, TRUE) >= 2

RECURSIVE HeaderLen(_)
\* the number of bytes of s up to its first ')', that byte included (all of
\* s when it has none).
HeaderLen(s) ==
    IF s = <<>> THEN 0
    ELSE IF s[1] = ")" THEN 1
    ELSE 1 + HeaderLen(Tail(s))

\* the white space other than the ASCII space.
OtherSpace == {"\t", "\r", "\n"}

\* s starts with '(' and has a tab, carriage return or newline before the
\* first ')'.
OtherSpaceInHeader(s) ==
    /\ s # <<>>
    /\ s[1] = "("
    /\ \E k \in 1..HeaderLen(s) : s[k] \in OtherSpace

\* the parse returned a document that starts with a Compressed node.
StartsCompressed(r) ==
    /\ r # NotRun
    /\ r.ok
    /\ r.val.nodes[1].kind = "Compressed"

\* C21: in a marker header only the ASCII space is tolerated around the two
\* numbers: a header with a tab, carriage return or newline around a digit
\* run is not a marker, so no Compressed node is built from it.
C21_OnlySpaceInHeader ==
    OtherSpaceInHeader(input)
        => (~StartsCompressed(r1) /\ ~StartsCompressed(r2))

\* s starts with '(' and has a sign before the first ')'.
SignInHeader(s) ==
    /\ s # <<>>
    /\ s[1] = "("
    /\ \E k \in 1..HeaderLen(s) : s[k] \in {"+", "-"}

\* C22: the two fields of a marker are unsigned decimal numbers read from
\* runs of digits: leading zeros are accepted and do not change the value,
\* and a header with a sign in a field is not a marker.
C22_DecimalFields ==
    /\ ((Ran1 \/ Ran2) /\ RefMarkerAt(input, 1).ok)
          => /\ marker(input).tag = "Done"
             /\ marker(input).out
                   = <<RefMarkerAt(input, 1).L, RefMarkerAt(input, 1).R>>
    /\ (StartsCompressed(r1) /\ RefMarkerAt(input, 1).ok)
          => /\ r1.val.nodes[1].repeat = RefMarkerAt(input, 1).R
             /\ Len(r1.val.nodes[1].children.nodes[1].text)
                   = RefMarkerAt(input, 1).L
    /\ (StartsCompressed(r2) /\ RefMarkerAt(input, 1).ok)
          => r2.val.nodes[1].repeat = RefMarkerAt(input, 1).R
    /\ ((Ran1 \/ Ran2) /\ SignInHeader(input))
          => /\ marker(input).tag = "Error"
             /\ ~StartsCompressed(r1)
             /\ ~StartsCompressed(r2)

\* a header with leading zeros, "(01x02)", was read as L = 1 and R = 2 in
\* both modes.
C22_Witness ==
    /\ Len(input) >= 8
    /\ Take(input, 7) = <<"(", "0", "1", "x", "0", "2", ")">>
    /\ StartsCompressed(r1) /\ StartsCompressed(r2)
    /\ r1.val.nodes[1].repeat = 2
    /\ Len(r1.val.nodes[1].children.nodes[1].text) = 1
    /\ r2.val.nodes[1].repeat = 2

\* the nodes of the elements els.
SpanNodes(els) == [k \in 1..Len(els) |-> els[k].node]

\* the elements els of a parse of n bytes follow each other in the input:
\* each starts where the one before ended and none moves the cursor back.
SpansInOrder(els, n) ==
    \A k \in 1..Len(els) :
        /\ els[k].to <= els[k].from
        /\ els[k].from = (IF k = 1 THEN n ELSE els[k - 1].to)

\* the last n bytes of s.
Last(s, n) == Drop(s, Len(s) - n)

\* every Compressed element of els, read from s, took the bytes of its header
\* and the L bytes after it, L as the header says.
SpansAdvance(s, els) ==
    \A k \in 1..Len(els) :
        els[k].node.kind = "Compressed"
            => els[k].from - els[k].to
                  = HeaderLen(Last(s, els[k].from))
                      + marker(Last(s, els[k].from)).out[1]

\* the window of the marker at the start of s, as the program reads it.
WindowBytes(s) == Take(Drop(s, HeaderLen(s)), marker(s).out[1])

RECURSIVE SpansDeep(_)
\* SpansInOrder and SpansAdvance for the recursive parse of s and for the
\* parse of the window of each of its Compressed elements.
SpansDeep(s) ==
    /\ SpansInOrder(many1_v2_spans(s, TRUE), Len(s))
    /\ SpansAdvance(s, many1_v2_spans(s, TRUE))
    /\ \A k \in 1..Len(many1_v2_spans(s, TRUE)) :
          many1_v2_spans(s, TRUE)[k].node.kind = "Compressed"
              => SpansDeep(WindowBytes(
                     Last(s, many1_v2_spans(s, TRUE)[k].from)))

\* C23: the nodes of a document are in source order and their spans do not
\* overlap: the cursor only moves forward, a marker moves it by the length of
\* its header plus L, each node starts where the one before ended, and a body
\* lies in the window of its own marker.
C23_SpansInOrder ==
    /\ Ok1 => /\ SpanNodes(many1_v1_spans(input, TRUE)) = r1.val.nodes
              /\ SpansInOrder(many1_v1_spans(input, TRUE), Len(input))
              /\ SpansAdvance(input, many1_v1_spans(input, TRUE))
    /\ Ok2 => /\ SpanNodes(many1_v2_spans(input, TRUE)) = r2.val.nodes
              /\ SpansDeep(input)

\* both parses returned a marker, whose payload holds a marker, and then a
\* literal.
C23_Witness ==
    /\ Ok1 /\ Ok2
    /\ Len(r1.val.nodes) = 2 /\ Len(r2.val.nodes) = 2
    /\ r1.val.nodes[1].kind = "Compressed"
    /\ r1.val.nodes[2] = Uncompressed(<<"A">>)
    /\ r2.val.nodes[1].kind = "Compressed"
    /\ r2.val.nodes[1].children.nodes[1].kind = "Compressed"
    /\ r2.val.nodes[2] = Uncompressed(<<"A">>)

RECURSIVE NodeCount(_)
RECURSIVE NodeCountOf(_, _)
\* the number of nodes among the first n of nodes, children included.
NodeCountOf(nodes, n) ==
    IF n = 0 THEN 0
    ELSE NodeCountOf(nodes, n - 1)
           + (IF nodes[n].kind = "Uncompressed" THEN 1
              ELSE 1 + NodeCount(nodes[n].children))

\* the number of nodes of a document.
NodeCount(doc) == NodeCountOf(doc.nodes, Len(doc.nodes))

\* C26: an evaluation visits each node of the document once: it makes as
\* many node evaluations as the document has nodes, whatever the repeat
\* counts are.
C26_VisitsEachNodeOnce ==
    /\ Evaluated1 => Ezip_visits(r1.val, overflow_checks) = NodeCount(r1.val)
    /\ Evaluated2 => Ezip_visits(r2.val, overflow_checks) = NodeCount(r2.val)

\* the input starts with a marker of declared length 0.
ZeroLengthMarker == RefMarkerAt(input, 1).ok /\ RefMarkerAt(input, 1).L = 0

\* the input after its first header.
AfterFirstHeader == Drop(input, HeaderLen(input))

\* the document r of an input that starts with a marker of length 0 starts
\* with a Compressed node of length 0 and is as long as tail, the document
\* of the text after the header.
ZeroLengthSkipped(r, tail) ==
    /\ r.ok
    /\ r.val.nodes[1].kind = "Compressed"
    /\ EzipNode_uncompressed_len(r.val.nodes[1], FALSE) = Val(0)
    /\ Ezip_uncompressed_len(r.val, FALSE)
          = Ezip_uncompressed_len(tail.val, FALSE)

\* C27: in either mode a marker "(0xR)" gives a Compressed node of length 0
\* and the parse goes on with the text after the header: the document is as
\* long as the document of that text.
C27_ZeroLength ==
    /\ (Ran1 /\ ZeroLengthMarker
             /\ to_full_result(ezipv1(AfterFirstHeader)).ok)
          => ZeroLengthSkipped(r1, to_full_result(ezipv1(AfterFirstHeader)))
    /\ (Ran2 /\ ZeroLengthMarker
             /\ to_full_result(ezipv2(AfterFirstHeader)).ok)
          => ZeroLengthSkipped(r2, to_full_result(ezipv2(AfterFirstHeader)))

\* the last operation was of this kind and execute returned true for it.
Succeeded(kind) == nops > 0 /\ op.kind = kind /\ ret

\* the pixel positions of the screen.
Columns == 0..(ScreenWidth - 1)
Rows == 0..(ScreenHeight - 1)

\* C28: a successful RotateRow(y, b) moves pixel (x, y) to
\* ((x + b) mod width, y), a successful RotateCol(x, b) moves pixel (x, y)
\* to (x, (y + b) mod height), the pixels of the other rows or columns stay
\* as they were; so the voltage changes through Rect only and never
\* decreases.
C28_Rotations ==
    /\ Succeeded("RotateRow")
          => \A x \in Columns, y \in Rows :
                IF y = op.a
                THEN pixel_at(pixels, (x + op.b) % ScreenWidth, y)
                        = pixel_at(before, x, y)
                ELSE pixel_at(pixels, x, y) = pixel_at(before, x, y)
    /\ Succeeded("RotateCol")
          => \A x \in Columns, y \in Rows :
                IF x = op.a
                THEN pixel_at(pixels, x, (y + op.b) % ScreenHeight)
                        = pixel_at(before, x, y)
                ELSE pixel_at(pixels, x, y) = pixel_at(before, x, y)
    /\ voltage_usage(pixels) >= voltage_usage(before)
    /\ voltage_usage(pixels) # voltage_usage(before) => op.kind = "Rect"

\* a row with lit and unlit pixels was rotated by an offset that is not 0,
\* on a screen whose other row differs from it.
C28_Witness ==
    /\ Succeeded("RotateRow")
    /\ op.b > 0
    /\ pixels # before
    /\ \E x \in Columns, y \in Rows :
          pixel_at(before, x, y) # pixel_at(before, x, (y + 1) % ScreenHeight)

\* the operation o is one the screen rejects.
Rejected(o) ==
    CASE o.kind = "Rect" -> o.a > ScreenWidth \/ o.b > ScreenHeight
      [] o.kind = "RotateRow" -> o.a >= ScreenHeight \/ o.b >= ScreenWidth
      [] o.kind = "RotateCol" -> o.a >= ScreenWidth \/ o.b >= ScreenHeight

\* C29: execute returns false exactly for a Rect wider or taller than the
\* screen, a row or column that is not on the screen, or a rotation offset
\* that is at least the width of the row or the height of the column; a
\* rejected operation leaves every pixel as it was.
C29_Rejections ==
    nops > 0 => /\ ret = ~Rejected(op)
                /\ ~ret => pixels = before

\* a rotation of a column by the height of the screen was rejected on a
\* screen with lit pixels.
C29_Witness ==
    /\ nops > 0
    /\ op.kind = "RotateCol" /\ op.a < ScreenWidth /\ op.b = ScreenHeight
    /\ ~ret
    /\ voltage_usage(pixels) > 0

\* the Compressed node of recursive mode built from the one header read m:
\* the count and the length of the window are both taken from m.
SingleHeaderNode(m) ==
    IF m.tag # "Done" THEN m
    ELSE compressed_v2_node(m.out[2],
                            length_value_window(Done(m.rest, m.out[1])))

\* marker and marker_len read the same header at the start of s, and
\* compressed_v2 answers what one read of the header gives.
SameHeader(s) ==
    /\ marker_len(s).tag = marker(s).tag
    /\ marker(s).tag = "Done"
          => /\ marker_len(s).rest = marker(s).rest
             /\ marker_len(s).out = marker(s).out[1]
    /\ compressed_v2(s) = SingleHeaderNode(marker(s))

\* C30: in recursive mode the header is read by marker (peeked) and again by
\* marker_len (consumed): at every position of the input both accept the
\* same header text and the same length L, and the Compressed node is the
\* one a single read of the header gives.
C30_SameHeader ==
    Ran2 => \A p \in 0..Len(input) : SameHeader(Drop(input, p))

\* parse_v2 built a Compressed node from a header with white space in it
\* whose length and count differ.
C30_Witness ==
    /\ StartsCompressed(r2)
    /\ OtherSpaceInHeader(input) \/ input[2] = " "
    /\ marker(input).tag = "Done"
    /\ marker(input).out[1] # marker(input).out[2]
    /\ r2.val.nodes[1].repeat = marker(input).out[2]

====
